---- MODULE Spec2Model ----
(***************************************************************************)
(* A model of textnet/statistics.py: the inequality and distribution       *)
(* utilities (gini_coeff, lorenz, cdf, ccdf), graph_statistics, and the     *)
(* sigma sweep (eval_sigmas, linear_attachment_score).                      *)
(*                                                                         *)
(* Numbers.  Python floats are modelled by exact rationals <<num, den>>    *)
(* with den > 0 in lowest terms, so "equal within floating tolerance" is   *)
(* equality here.  The IEEE specials numpy produces instead of raising are *)
(* kept: <<0, 0>> is NaN, <<1, 0>> is +inf and <<-1, 0>> is -inf.  The `/` *)
(* operator is true division (Python 3).                                   *)
(*                                                                         *)
(* Exceptions.  Every modelled function returns a record                   *)
(* [raised, value]: raised = "none" and the value returned, or the name of *)
(* the exception that left the function.                                   *)
(***************************************************************************)
EXTENDS Integers, Sequences, FiniteSets

VARIABLES
    fn,                  \* the function the caller invoked ("none" before)
    ret,                 \* what it returned or raised
    data,                \* the sample handed to gini_coeff/lorenz/cdf/ccdf
    numpy,               \* TRUE: the sample holds numpy scalars, FALSE: Python numbers
    graph,               \* the graph handed to graph_statistics: [n, edges]
    lower_degree_bounds, \* its threshold argument
    neighbors,           \* item -> (candidate -> score), scores in sigma units
    time_index,          \* item -> timestamp, in ticks
    min_sigma,           \* eval_sigmas arguments, in units of step_size
    max_sigma,
    normalized,          \* the normalized argument of linear_attachment_score
    pc,                  \* position of the caller / of the eval_sigmas loop
    sigma,               \* the loop variable of eval_sigmas
    statistics           \* the rows eval_sigmas has accumulated

vars == <<fn, ret, data, numpy, graph, lower_degree_bounds, neighbors,
          time_index, min_sigma, max_sigma, normalized, pc, sigma, statistics>>

-----------------------------------------------------------------------------
(* Bounds of the model *)

MaxLen == 4
MaxVal == 2
MaxNodes == 3
MaxBound == 1
NumItems == 2
MaxScore == 3
MaxTick == 3
TicksPerDay == 2
ScenarioSample == <<10, 0, 0, 0>>

-----------------------------------------------------------------------------
(* Floats as rationals *)

Abs(a) == IF a < 0 THEN 0 - a ELSE a
Sgn(a) == IF a < 0 THEN 0 - 1 ELSE IF a > 0 THEN 1 ELSE 0

RECURSIVE GCD(_, _)
GCD(a, b) == IF b = 0 THEN a ELSE GCD(b, a % b)

Rat(a, b) ==
    LET g == GCD(Abs(a), Abs(b))
        sg == IF b < 0 THEN 0 - 1 ELSE 1
    IN  <<(sg * a) \div g, (sg * b) \div g>>

NaN == <<0, 0>>
Inf(sg) == <<sg, 0>>
IntF(a) == <<a, 1>>
Zero == IntF(0)
One == IntF(1)

IsNaN(x) == x = NaN
IsFinite(x) == x[2] # 0

Neg(x) == <<0 - x[1], x[2]>>

Add(x, y) ==
    IF IsFinite(x) /\ IsFinite(y) THEN Rat(x[1] * y[2] + y[1] * x[2], x[2] * y[2])
    ELSE IF IsNaN(x) \/ IsNaN(y) THEN NaN
    ELSE IF IsFinite(x) THEN y
    ELSE IF IsFinite(y) THEN x
    ELSE IF x = y THEN x ELSE NaN

Sub(x, y) == Add(x, Neg(y))

Mul(x, y) ==
    IF IsFinite(x) /\ IsFinite(y) THEN Rat(x[1] * y[1], x[2] * y[2])
    ELSE IF IsNaN(x) \/ IsNaN(y) \/ x[1] = 0 \/ y[1] = 0 THEN NaN
    ELSE Inf(Sgn(x[1]) * Sgn(y[1]))

Leq(x, y) == IsFinite(x) /\ IsFinite(y) /\ x[1] * y[2] <= y[1] * x[2]

Return(v) == [raised |-> "none", value |-> v]
Raise(e) == [raised |-> e, value |-> NaN]

\* x / y.  A zero divisor raises ZeroDivisionError between Python numbers and
\* yields nan or +-inf (with a RuntimeWarning) when an operand is a numpy scalar.
TrueDiv(x, y, np) ==
    IF y = Zero
    THEN IF ~np THEN Raise("ZeroDivisionError")
         ELSE IF ~IsFinite(x) \/ x[1] = 0 THEN Return(NaN)
         ELSE Return(Inf(Sgn(x[1])))
    ELSE IF IsFinite(x) /\ IsFinite(y) THEN Return(Rat(x[1] * y[2], x[2] * y[1]))
    ELSE Return(NaN)

-----------------------------------------------------------------------------
(* Built-ins *)

RECURSIVE sum(_)
sum(d) == IF d = <<>> THEN 0 ELSE Head(d) + sum(Tail(d))

RECURSIVE sorted(_, _)
sorted(d, reverse) ==
    IF d = <<>> THEN <<>>
    ELSE LET x == Head(d)
             rest == sorted(Tail(d), reverse)
             first(y) == IF reverse THEN y > x ELSE y < x
         IN  SelectSeq(rest, first) \o <<x>> \o SelectSeq(rest, LAMBDA y : ~first(y))

\* d[:k]
Prefix(d, k) == SubSeq(d, 1, IF k > Len(d) THEN Len(d) ELSE k)

-----------------------------------------------------------------------------
(* gini_coeff *)

gini_sorted_ascending(data_) == sorted(data_, FALSE)
gini_sorted(data_) == sorted(data_, TRUE)

\* the loop of lines 229-236: sq is the sum of the running totals q0
RECURSIVE gini_loop(_, _, _, _)
gini_loop(d, i, q0, sq) ==
    IF i > Len(d) THEN sq
    ELSE LET q == IF i = 1 THEN d[i] ELSE q0 + d[i]
         IN  gini_loop(d, i + 1, q, sq + q)

gini_sq_skips_first(d) == gini_loop(d, 1, 0, 0) - (IF d = <<>> THEN 0 ELSE d[1])
gini_sq(d) == gini_loop(d, 1, 0, 0)

\* line 239: R = n / (n - 1.) * (1. / n * s - 1.)
gini_R_unscaled(n, s) ==
    IF n = 0 THEN Raise("ZeroDivisionError")
    ELSE Return(Sub(Mul(Rat(1, n), s), One))
gini_R(n, s) ==
    IF n = 1 \/ n = 0 THEN Raise("ZeroDivisionError")
    ELSE Return(Mul(Rat(n, n - 1), Sub(Mul(Rat(1, n), s), One)))

\* the body of the try block, lines 238-239
gini_try(data_, np) ==
    LET d == gini_sorted(data_)
        n == Len(d)
        q == TrueDiv(IntF(2 * gini_sq(d)), IntF(sum(d)), np /\ n > 0)
    IN  IF q.raised # "none" THEN q ELSE gini_R(n, Sub(q.value, One))

gini_coeff_uncaught(data_, np) == gini_try(data_, np)
gini_coeff(data_, np) ==
    LET r == gini_try(data_, np)
    IN  IF r.raised = "ZeroDivisionError" THEN Return(NaN) ELSE r

-----------------------------------------------------------------------------
(* lorenz *)

PercentSteps == 100

\* p = np.arange(0.0, 1.01, 0.01): the 101 points 0, 0.01, ..., 1.0
lorenz_p == [i \in 1..(PercentSteps + 1) |-> Rat(i - 1, PercentSteps)]

\* items[i] = int(np.floor(n * x)) for x = p[i].  The float product n * x
\* floors to the exact floor(n * (i-1) / 100) for every n up to MaxLen + 1;
\* for larger n it can fall one short where n * (i-1) / 100 is an integer.
lorenz_items(n, i) == (n * (i - 1)) \div PercentSteps

\* c[i] = sum(d[:int(items[i])]) / float(s); sum() of an empty slice is the
\* Python int 0, so only a non-empty slice of numpy scalars divides as numpy
lorenz_share_of_count(d, s, i, np) ==
    LET k == lorenz_items(Len(d), i)
    IN  IF i = 1 THEN Return(Zero)
        ELSE TrueDiv(IntF(sum(Prefix(d, k))), IntF(Len(d)), np /\ k > 0)
lorenz_share(d, s, i, np) ==
    LET k == lorenz_items(Len(d), i)
    IN  IF i = 1 THEN Return(Zero)
        ELSE TrueDiv(IntF(sum(Prefix(d, k))), IntF(s), np /\ k > 0)

lorenz(data_, np) ==
    LET d == sorted(data_, TRUE)
        s == sum(d)
        c == [i \in 1..(PercentSteps + 1) |-> lorenz_share(d, s, i, np)]
    IN  IF \E i \in DOMAIN c : c[i].raised # "none"
        THEN Raise("ZeroDivisionError")
        ELSE Return(<<lorenz_p, [i \in DOMAIN c |-> c[i].value]>>)

-----------------------------------------------------------------------------
(* cdf, ccdf *)

searchsorted_right(a, v) == Cardinality({j \in DOMAIN a : a[j] <= v})
\* np.searchsorted(a, v, side='left'): the number of elements of a below v
searchsorted(a, v) == Cardinality({j \in DOMAIN a : a[j] < v})

\* np.unique(x, return_index=True) on a sorted x: the positions of the first
\* occurrence of each value, in increasing order of value
RECURSIVE unique_indices(_, _)
unique_indices(x, j) ==
    IF j > Len(x) THEN <<>>
    ELSE (IF j = 1 \/ x[j] # x[j - 1] THEN <<j>> ELSE <<>>) \o unique_indices(x, j + 1)

cdf(x_, survival) ==
    LET x == sorted(SelectSeq(x_, LAMBDA v : v > 0), FALSE)
        ranks == [j \in DOMAIN x |-> Rat(searchsorted(x, x[j]), Len(x))]
        idx == unique_indices(x, 1)
        unique_data == [j \in DOMAIN idx |-> x[idx[j]]]
        c == [j \in DOMAIN idx |-> ranks[idx[j]]]
    IN  Return(<<unique_data,
                 IF survival THEN [j \in DOMAIN c |-> Sub(One, c[j])] ELSE c>>)

ccdf(x_) == cdf(x_, TRUE)

-----------------------------------------------------------------------------
(* Callers of the sample functions *)

SampleValues == ((0 - 1)..MaxVal) \cup {ScenarioSample[i] : i \in DOMAIN ScenarioSample}
Samples == UNION {[1..n -> SampleValues] : n \in 0..MaxLen}

NoGraph == [n |-> 0, edges |-> {}]

InitSample ==
    /\ data \in Samples
    /\ numpy \in BOOLEAN
    /\ fn = "none"
    /\ ret = Return(NaN)
    /\ graph = NoGraph
    /\ lower_degree_bounds = 0
    /\ neighbors = <<>>
    /\ time_index = <<>>
    /\ min_sigma = 0
    /\ max_sigma = 0
    /\ normalized = TRUE
    /\ pc = "idle"
    /\ sigma = 0
    /\ statistics = <<>>

unchanged_arguments ==
    UNCHANGED <<data, numpy, graph, lower_degree_bounds, neighbors, time_index,
                min_sigma, max_sigma, normalized, pc, sigma, statistics>>

CallGiniCoeff ==
    /\ fn = "none"
    /\ fn' = "gini_coeff"
    /\ ret' = gini_coeff(data, numpy)
    /\ unchanged_arguments

CallLorenz ==
    /\ fn = "none"
    /\ fn' = "lorenz"
    /\ ret' = lorenz(data, numpy)
    /\ unchanged_arguments

CallCdf ==
    /\ fn = "none"
    /\ fn' = "cdf"
    /\ ret' = cdf(data, FALSE)
    /\ unchanged_arguments

CallCcdf ==
    /\ fn = "none"
    /\ fn' = "ccdf"
    /\ ret' = ccdf(data)
    /\ unchanged_arguments

NextSample == CallGiniCoeff \/ CallLorenz \/ CallCdf \/ CallCcdf

SpecSample == InitSample /\ [][NextSample]_vars

-----------------------------------------------------------------------------
(* Properties of the sample functions, checked under SpecSample *)

NonNegative(d) == \A i \in DOMAIN d : d[i] >= 0
Positives(d) == {i \in DOMAIN d : d[i] > 0}
\* the fraction of the positive elements of d that are strictly below v
FractionBelow(d, v) ==
    Rat(Cardinality({i \in Positives(d) : d[i] < v}), Cardinality(Positives(d)))

\* C1 as stated: gini_coeff([10,0,0,0]) returns 0.75.
C1_ScenarioIsThreeQuarters ==
    (fn = "gini_coeff" /\ data = ScenarioSample) => ret = Return(Rat(3, 4))

\* C1 amended: gini_coeff([10,0,0,0]) returns 1.0, the value of
\* n/(n-1) * (s/n - 1) with n = 4 and s = 2*40/10 - 1 = 7.
C1_ScenarioIsOne ==
    (fn = "gini_coeff" /\ data = ScenarioSample) => ret = Return(One)

C1_Witness == fn = "gini_coeff" /\ data = ScenarioSample /\ ret.raised = "none"

\* C2: on every sample of fewer than 2 elements gini_coeff returns NaN and
\* raises nothing.
C2_SmallSampleIsNaN ==
    (fn = "gini_coeff" /\ Len(data) < 2) => ret = Return(NaN)

C2_Witness == fn = "gini_coeff" /\ data = <<0>> /\ ~numpy /\ ret = Return(NaN)

\* C3: on every sample of n >= 2 equal positive values gini_coeff returns 0
\* (in exact arithmetic; the float result is within rounding of it).
C3_UniformIsZero ==
    (/\ fn = "gini_coeff"
     /\ Len(data) >= 2
     /\ \A i \in DOMAIN data : data[i] = data[1] /\ data[i] > 0)
    => ret = Return(Zero)

C3_Witness == fn = "gini_coeff" /\ data = <<1, 1, 1, 1>> /\ ret = Return(Zero)

LorenzCurveOk ==
    /\ ret.raised = "none"
    /\ LET p == ret.value[1]
           c == ret.value[2]
       IN  /\ Len(p) = PercentSteps + 1
           /\ Len(c) = PercentSteps + 1
           /\ p[1] = Zero /\ c[1] = Zero
           /\ p[PercentSteps + 1] = One /\ c[PercentSteps + 1] = One
           /\ \A i \in 1..PercentSteps : Leq(c[i], c[i + 1])

C6_CdfAndCcdf ==
    (fn \in {"cdf", "ccdf"} /\ Positives(data) # {})
    => /\ ret.raised = "none"
       /\ LET x == ret.value[1]
              c == ret.value[2]
          IN  /\ Len(x) = Len(c)
              /\ {x[j] : j \in DOMAIN x} = {data[i] : i \in Positives(data)}
              /\ \A j \in 1..(Len(x) - 1) : x[j] < x[j + 1]
              /\ fn = "cdf" =>
                    /\ \A j \in DOMAIN c : c[j] = FractionBelow(data, x[j])
                    /\ \A j \in DOMAIN c : Leq(Zero, c[j]) /\ Leq(c[j], One)
                    /\ \A j \in 1..(Len(c) - 1) : Leq(c[j], c[j + 1])
              /\ fn = "ccdf" =>
                    \A j \in DOMAIN c : c[j] = Sub(One, FractionBelow(data, x[j]))

C6_Witness ==
    /\ fn = "cdf"
    /\ data = <<2, 0 - 1, 1, 2>>
    /\ ret = Return(<<(<<1, 2>>), <<Zero, Rat(1, 3)>>>>)

-----------------------------------------------------------------------------
(* graph_statistics.  A graph is [n, edges]: the vertices 1..n and a set of  *)
(* directed edges <<a, b>> without loops.  The fields D, ED, APL, CC and     *)
(* density are computed inside igraph and are left out of the record.        *)

Vertices(g) == 1..g.n

\* np.array(graph.degree()), np.array(graph.indegree())
degree(g) ==
    [v \in Vertices(g) |-> Cardinality({e \in g.edges : e[1] = v \/ e[2] = v})]
indegree(g) == [v \in Vertices(g) |-> Cardinality({e \in g.edges : e[2] = v})]

\* graph.components(mode="WEAK")
RECURSIVE Reached(_, _)
Reached(g, S) ==
    LET T == S \cup {v \in Vertices(g) :
                        \E u \in S : <<u, v>> \in g.edges \/ <<v, u>> \in g.edges}
    IN  IF T = S THEN S ELSE Reached(g, T)
components(g) == {Reached(g, {v}) : v \in Vertices(g)}

\* a[a > bound]
Masked(a, bound) == SelectSeq(a, LAMBDA x : x > bound)

\* ndarray.mean(), ndarray.var(): nan on an empty array
RECURSIVE sum_squares(_)
sum_squares(a) == IF a = <<>> THEN 0 ELSE Head(a) * Head(a) + sum_squares(Tail(a))
np_mean(a) == IF a = <<>> THEN NaN ELSE Rat(sum(a), Len(a))
np_var(a) ==
    IF a = <<>> THEN NaN
    ELSE Rat(Len(a) * sum_squares(a) - sum(a) * sum(a), Len(a) * Len(a))

\* line 46: max(map(len, graph.components(mode="WEAK"))) / len(graph.vs)
component_fraction(g) ==
    LET sizes == {Cardinality(c) : c \in components(g)}
    IN  IF sizes = {} THEN Raise("ValueError")
        ELSE TrueDiv(IntF(CHOOSE m \in sizes : \A k \in sizes : k <= m),
                     IntF(g.n), FALSE)

\* lines 45-48
largest_component_uncaught(g) == component_fraction(g)
largest_component(g) ==
    LET r == component_fraction(g)
    IN  IF r.raised \in {"ZeroDivisionError", "ValueError"} THEN Return(Zero) ELSE r

graph_statistics(g, bound) ==
    LET degree_distribution == degree(g)
        in_degree_distribution == indegree(g)
        comp == largest_component(g)
        gini_d == gini_coeff(Masked(degree_distribution, bound), TRUE)
        gini_d_in == gini_coeff(Masked(in_degree_distribution, bound), TRUE)
    IN  IF comp.raised # "none" THEN comp
        ELSE IF gini_d.raised # "none" THEN gini_d
        ELSE IF gini_d_in.raised # "none" THEN gini_d_in
        ELSE Return([n |-> g.n,
                     m |-> Cardinality(g.edges),
                     k |-> np_mean(Masked(degree_distribution, bound)),
                     k_var |-> np_var(degree_distribution),
                     k_in |-> np_mean(Masked(in_degree_distribution, bound)),
                     k_in_var |-> np_var(in_degree_distribution),
                     gini_d |-> gini_d.value,
                     gini_d_in |-> gini_d_in.value,
                     comp_f |-> comp.value])

Graphs ==
    UNION {{[n |-> n, edges |-> E] :
                E \in SUBSET {e \in (1..n) \X (1..n) : e[1] # e[2]}} : n \in 0..MaxNodes}

InitGraph ==
    /\ graph \in Graphs
    /\ lower_degree_bounds \in (0 - 1)..MaxBound
    /\ fn = "none"
    /\ ret = Return(NaN)
    /\ data = <<>>
    /\ numpy = TRUE
    /\ neighbors = <<>>
    /\ time_index = <<>>
    /\ min_sigma = 0
    /\ max_sigma = 0
    /\ normalized = TRUE
    /\ pc = "idle"
    /\ sigma = 0
    /\ statistics = <<>>

CallGraphStatistics ==
    /\ fn = "none"
    /\ fn' = "graph_statistics"
    /\ ret' = graph_statistics(graph, lower_degree_bounds)
    /\ unchanged_arguments

NextGraph == CallGraphStatistics

SpecGraph == InitGraph /\ [][NextGraph]_vars

-----------------------------------------------------------------------------
(* Properties of graph_statistics, checked under SpecGraph *)

\* C4: k_var and k_in_var are computed over the same nodes as k and k_in,
\* those whose degree (in-degree) exceeds lower_degree_bounds.  (Stated for
\* the graphs in which some degree and some in-degree exceed the threshold.)
C4_VarianceOverMaskedDegrees ==
    (/\ fn = "graph_statistics"
     /\ Masked(degree(graph), lower_degree_bounds) # <<>>
     /\ Masked(indegree(graph), lower_degree_bounds) # <<>>) =>
        /\ ret.raised = "none"
        /\ ret.value.k = np_mean(Masked(degree(graph), lower_degree_bounds))
        /\ ret.value.k_var = np_var(Masked(degree(graph), lower_degree_bounds))
        /\ ret.value.k_in = np_mean(Masked(indegree(graph), lower_degree_bounds))
        /\ ret.value.k_in_var = np_var(Masked(indegree(graph), lower_degree_bounds))

\* S is joined by the edges of g: no part of S is cut off from the rest of S
Joined(g, S) ==
    \A T \in SUBSET S :
        (T # {} /\ T # S) =>
            \E u \in T, v \in S \ T : <<u, v>> \in g.edges \/ <<v, u>> \in g.edges
LargestJoined(g) ==
    CHOOSE m \in 0..g.n :
        /\ \E S \in SUBSET Vertices(g) : Cardinality(S) = m /\ Joined(g, S)
        /\ \A S \in SUBSET Vertices(g) : Joined(g, S) => Cardinality(S) <= m

\* C7: comp_f is the size of the largest weakly-connected component over the
\* node count: 1.0 when one component spans a non-empty graph, and 0, with
\* nothing raised, for the empty graph.
C7_ComponentFraction ==
    fn = "graph_statistics" =>
        /\ ret.raised = "none"
        /\ graph.n > 0 => ret.value.comp_f = Rat(LargestJoined(graph), graph.n)
        /\ (graph.n > 0 /\ Joined(graph, Vertices(graph))) => ret.value.comp_f = One
        /\ graph.n = 0 => ret.value.comp_f = Zero

C7_Witness ==
    /\ fn = "graph_statistics"
    /\ graph = [n |-> 3, edges |-> {<<1, 2>>, <<3, 2>>}]
    /\ ret.raised = "none"
    /\ ret.value.comp_f = One

-----------------------------------------------------------------------------
(* linear_attachment_score.  Items are 1..NumItems; neighbors[i] maps some   *)
(* of the other items to a score; scores and thresholds are counted in units *)
(* of step_size.  Timestamps are counted in ticks, TicksPerDay to the day,   *)
(* and (t1 - t2).days is the floor of the difference in days.                *)

Items == 1..NumItems

Days(delta) == delta \div TicksPerDay

Min(S) == CHOOSE m \in S : \A k \in S : m <= k
Max(S) == CHOOSE m \in S : \A k \in S : k <= m

RECURSIVE SumOver(_, _)
SumOver(S, f) ==
    IF S = {} THEN Zero
    ELSE LET i == CHOOSE j \in S : TRUE
         IN  Add(f[i], SumOver(S \ {i}, f))

\* lines 72-78
normalizer(t1, t2, t_min, t_max, norm) ==
    IF ~norm THEN IntF(Days(t1 - t2))
    ELSE IF Days(t1 - t_min) = 0 THEN Zero
    ELSE Rat(Days(t1 - t2) * Days(t_max - t_min), Days(t1 - t_min))

\* the candidates p of story_id with s >= sigma
Selected(nb, story_id, sg) == {p \in DOMAIN nb[story_id] : nb[story_id][p] >= sg}

linear_attachment_score(nb, ti, sg, norm) ==
    LET t_min == Min({ti[i] : i \in DOMAIN ti})
        t_max == Max({ti[i] : i \in DOMAIN ti})
        time_diffs(story_id) ==
            [q \in Selected(nb, story_id, sg) |->
                normalizer(ti[story_id], ti[q], t_min, t_max, norm)]
        scored == {story_id \in DOMAIN nb : Selected(nb, story_id, sg) # {}}
        scores == [story_id \in scored |->
                      TrueDiv(SumOver(Selected(nb, story_id, sg), time_diffs(story_id)),
                              IntF(Cardinality(Selected(nb, story_id, sg))),
                              FALSE).value]
        mean == TrueDiv(SumOver(scored, scores), IntF(Cardinality(scored)), FALSE)
    IN  IF mean.raised # "none" THEN mean
        ELSE TrueDiv(mean.value, IntF(Days(t_max - t_min)), FALSE)

-----------------------------------------------------------------------------
(* eval_sigmas *)

\* to_graph(neighbors, sigma) of textnet.network: every item is a node and
\* a -> b is an edge when b was chosen for a with a score of at least sigma
to_graph(nb, sg) ==
    [n |-> Cardinality(DOMAIN nb),
     edges |-> {e \in (DOMAIN nb) \X (DOMAIN nb) :
                   e[2] \in DOMAIN nb[e[1]] /\ nb[e[1]][e[2]] >= sg}]

\* np.arange(min_sigma + step_size, max_sigma + step_size, step_size), in
\* units of step_size
arange_start(lo) == lo + 1
arange_stop(hi) == hi + 1

NeighborMaps ==
    [Items -> UNION {[C -> 1..MaxScore] : C \in SUBSET Items}]

Init ==
    /\ neighbors \in {nb \in NeighborMaps : \A i \in Items : i \notin DOMAIN nb[i]}
    /\ time_index \in [Items -> 0..MaxTick]
    /\ min_sigma \in 0..1
    /\ max_sigma \in min_sigma..MaxScore
    /\ normalized = TRUE
    /\ fn = "none"
    /\ ret = Return(NaN)
    /\ data = <<>>
    /\ numpy = TRUE
    /\ graph = NoGraph
    /\ lower_degree_bounds = 0
    /\ pc = "idle"
    /\ sigma = 0
    /\ statistics = <<>>

unchanged_inputs ==
    UNCHANGED <<data, numpy, graph, lower_degree_bounds, neighbors, time_index,
                min_sigma, max_sigma>>

\* line 164 and the start of the loop of line 165
CallEvalSigmas ==
    /\ pc = "idle"
    /\ fn' = "eval_sigmas"
    /\ pc' = "loop"
    /\ sigma' = arange_start(min_sigma)
    /\ statistics' = <<>>
    /\ UNCHANGED <<ret, normalized>>
    /\ unchanged_inputs

\* one pass of the loop body, lines 166-170; an exception leaves eval_sigmas
EvalSigmasIteration ==
    /\ pc = "loop"
    /\ sigma < arange_stop(max_sigma)
    /\ LET G == to_graph(neighbors, sigma)
           stats == graph_statistics(G, 0)
           la == linear_attachment_score(neighbors, time_index, sigma, TRUE)
       IN  IF stats.raised # "none"
           THEN pc' = "raised" /\ ret' = stats /\ UNCHANGED <<sigma, statistics>>
           ELSE IF la.raised # "none"
           THEN pc' = "raised" /\ ret' = la /\ UNCHANGED <<sigma, statistics>>
           ELSE /\ statistics' =
                      Append(statistics, [sigma |-> sigma, stats |-> stats.value,
                                          la |-> la.value])
                /\ sigma' = sigma + 1
                /\ UNCHANGED <<pc, ret>>
    /\ UNCHANGED <<fn, normalized>>
    /\ unchanged_inputs

\* pd.DataFrame(statistics).set_index('sigma'): the rows in order, keyed by
\* their sigma; a frame built from no rows has no 'sigma' column
set_index(rows) == IF rows = <<>> THEN Raise("KeyError") ELSE Return(rows)

\* line 171, once the loop is exhausted
EvalSigmasReturn ==
    /\ pc = "loop"
    /\ ~(sigma < arange_stop(max_sigma))
    /\ ret' = set_index(statistics)
    /\ pc' = IF ret'.raised = "none" THEN "returned" ELSE "raised"
    /\ UNCHANGED <<fn, normalized, sigma, statistics>>
    /\ unchanged_inputs

\* a direct call of linear_attachment_score
CallLinearAttachmentScore ==
    /\ pc = "idle"
    /\ \E sg \in 1..MaxScore, norm \in BOOLEAN :
          LET la == linear_attachment_score(neighbors, time_index, sg, norm)
          IN  /\ fn' = "linear_attachment_score"
              /\ sigma' = sg
              /\ normalized' = norm
              /\ ret' = la
              /\ pc' = IF la.raised = "none" THEN "returned" ELSE "raised"
    /\ UNCHANGED statistics
    /\ unchanged_inputs

Next ==
    \/ CallEvalSigmas
    \/ EvalSigmasIteration
    \/ EvalSigmasReturn
    \/ CallLinearAttachmentScore

Spec == Init /\ [][Next]_vars

-----------------------------------------------------------------------------
(* Properties of the sigma sweep, checked under Spec *)

\* C8: for every neighbor map and time index eval_sigmas runs to completion
\* and returns one row per threshold min_sigma + k*step_size below
\* max_sigma + step_size, in increasing order, each holding the statistics
\* and the linear-attachment score of its own sigma; a threshold no score
\* reaches does not abort the sweep.  (Stated for the sweeps that have a
\* threshold, over a time index spanning at least a day and a neighbor map
\* holding at least one score.)
C8_SweepCompletes ==
    (/\ fn = "eval_sigmas"
     /\ min_sigma < max_sigma
     /\ \E i, j \in Items : Days(time_index[i] - time_index[j]) > 0
     /\ \E i \in Items : DOMAIN neighbors[i] # {}) =>
        /\ pc # "raised"
        /\ pc = "returned" =>
              /\ ret.raised = "none"
              /\ Len(ret.value) = max_sigma - min_sigma
              /\ \A k \in DOMAIN ret.value :
                    LET row == ret.value[k]
                    IN  /\ row.sigma = min_sigma + k
                        /\ Return(row.stats) =
                              graph_statistics(to_graph(neighbors, row.sigma), 0)
                        /\ Return(row.la) =
                              linear_attachment_score(neighbors, time_index,
                                                      row.sigma, TRUE)

\* the items whose own timestamp is zero whole days after the earliest one
EarlyItems ==
    {i \in Items :
        Days(time_index[i] - Min({time_index[j] : j \in Items})) = 0}

\* C9: with normalized=True, when an item zero whole days after the earliest
\* timestamp has a selected neighbor, linear_attachment_score raises nothing
\* and returns a number, which is 0 when only such items have selected
\* neighbors.
C9_EarlyItemsNeverRaise ==
    (/\ fn = "linear_attachment_score"
     /\ normalized
     /\ \E i \in EarlyItems : Selected(neighbors, i, sigma) # {})
    => /\ ret.raised = "none"
       /\ IsFinite(ret.value)
       /\ (\A i \in Items : Selected(neighbors, i, sigma) # {} => i \in EarlyItems)
             => ret.value = Zero

====
